---------------------------- MODULE Spec2Model ----------------------------
(* A model of src/src/index.ts: caseConverter, toCss and injectStyle.      *)
(* Text is a sequence of one-character strings, so that splitting, case    *)
(* mapping and concatenation are computed and not assumed.                 *)
EXTENDS Integers, Sequences, FiniteSets

VARIABLES
    str, cres, cpc,                      \* caseConverter: argument, result, position
    obj, stack, lines, tres, terr, tpc,  \* toCss: argument, locals, result, error, position
    doc, pre, last                       \* injectStyle: the elements, their state before the last call, the last call

vars == <<str, cres, cpc, obj, stack, lines, tres, terr, tpc, doc, pre, last>>

-----------------------------------------------------------------------------
(* Bounds *)

MaxIdLen == 3

MaxEntries == 4

MaxElems == 2

-----------------------------------------------------------------------------
(* Characters and strings *)

LowerAlpha == <<"a","b","c","d","e","f","g","h","i","j","k","l","m",
                "n","o","p","q","r","s","t","u","v","w","x","y","z">>

UpperAlpha == <<"A","B","C","D","E","F","G","H","I","J","K","L","M",
                "N","O","P","Q","R","S","T","U","V","W","X","Y","Z">>

\* the character class [A-Z] of the split pattern
IsUpperAZ(c) == \E i \in 1..Len(UpperAlpha) : UpperAlpha[i] = c

IsLowerAZ(c) == \E i \in 1..Len(LowerAlpha) : LowerAlpha[i] = c

\* String.prototype.toUpperCase on one character
toUpperCase(c) ==
    IF IsLowerAZ(c)
    THEN UpperAlpha[CHOOSE i \in 1..Len(LowerAlpha) : LowerAlpha[i] = c]
    ELSE c

\* String.prototype.toLowerCase on one character
toLowerCaseChar(c) ==
    IF IsUpperAZ(c)
    THEN LowerAlpha[CHOOSE i \in 1..Len(UpperAlpha) : UpperAlpha[i] = c]
    ELSE c

\* String.prototype.toLowerCase
toLowerCase(s) == [i \in 1..Len(s) |-> toLowerCaseChar(s[i])]

\* str.split(/(?=[A-Z])/): cut before every [A-Z] that is not the first character
RECURSIVE splitFrom(_, _, _)
splitFrom(s, i, cur) ==
    IF i > Len(s) THEN <<cur>>
    ELSE IF IsUpperAZ(s[i]) /\ cur # <<>>
         THEN <<cur>> \o splitFrom(s, i + 1, <<s[i]>>)
         ELSE splitFrom(s, i + 1, Append(cur, s[i]))

split(s) == splitFrom(s, 1, <<>>)

\* Array.prototype.join
RECURSIVE join(_, _)
join(parts, sep) ==
    IF parts = <<>> THEN <<>>
    ELSE IF Len(parts) = 1 THEN parts[1]
    ELSE parts[1] \o sep \o join(Tail(parts), sep)

\* the array left as it is
reverseForgotten(a) == a

\* Array.prototype.reverse
reverse(a) == [i \in 1..Len(a) |-> a[Len(a) + 1 - i]]

-----------------------------------------------------------------------------
(* caseConverter *)

\* const isUppercase = str[0] === str[0].toUpperCase()
isUppercase(s) == s[1] = toUpperCase(s[1])

caseConverter(s) ==
    IF Len(s) = 0 THEN s
    ELSE LET result == toLowerCase(join(split(s), <<"-">>))
         IN  IF isUppercase(s) THEN <<"-">> \o result ELSE result

-----------------------------------------------------------------------------
(* JavaScript values: t is the kind; s the characters of a string; n the    *)
(* number (or 1/0 for true/false); kids the entries <<[id, value], ...>> of *)
(* an object, in Object.entries order, or of an array (ids "0", "1", ...).  *)

Val(t, s, n, kids) == [t |-> t, s |-> s, n |-> n, kids |-> kids]

Str(s) == Val("string", s, 0, <<>>)
Num(n) == Val("number", <<>>, n, <<>>)
Bool(b) == Val("boolean", <<>>, IF b THEN 1 ELSE 0, <<>>)
Null == Val("null", <<>>, 0, <<>>)
Undefined == Val("undefined", <<>>, 0, <<>>)
Obj(entries) == Val("object", <<>>, 0, entries)
Arr(items) == Val("array", <<>>, 0, items)

Entry(id, value) == [id |-> id, value |-> value]

\* typeof value
typeof(v) == IF v.t \in {"object", "array", "null"} THEN "object" ELSE v.t

\* Array.isArray(value)
isArray(v) == v.t = "array"

\* !value
falsy(v) ==
    \/ v.t \in {"null", "undefined"}
    \/ v.t = "string" /\ v.s = <<>>
    \/ v.t \in {"number", "boolean"} /\ v.n = 0

DigitChars == <<"0","1","2","3","4","5","6","7","8","9">>

RECURSIVE NumberToString(_)
NumberToString(n) ==
    IF n < 10 THEN <<DigitChars[n + 1]>>
    ELSE NumberToString(n \div 10) \o <<DigitChars[(n % 10) + 1]>>

\* the string a template literal `${value}` makes of a value
RECURSIVE ToString(_)
ToString(v) ==
    CASE v.t = "string" -> v.s
      [] v.t = "number" -> NumberToString(v.n)
      [] v.t = "boolean" -> IF v.n = 1 THEN <<"t","r","u","e">> ELSE <<"f","a","l","s","e">>
      [] v.t = "null" -> <<"n","u","l","l">>
      [] v.t = "undefined" -> <<"u","n","d","e","f","i","n","e","d">>
      [] v.t = "array" ->
            join([i \in 1..Len(v.kids) |->
                     IF v.kids[i].value.t \in {"null", "undefined"} THEN <<>>
                     ELSE ToString(v.kids[i].value)], <<",">>)
      [] OTHER -> <<"[","o","b","j","e","c","t"," ","O","b","j","e","c","t","]">>

-----------------------------------------------------------------------------
(* toCss *)

NoText == <<"<none>">>

StackElement(parentSelector, cssObj) ==
    [parentSelector |-> parentSelector, cssObj |-> cssObj]

\* the check without Array.isArray(obj)
rejectsArraysPass(o) == falsy(o) \/ typeof(o) # "object"

\* the upfront check: !obj || typeof obj !== 'object' || Array.isArray(obj)
rejects(o) == falsy(o) \/ typeof(o) # "object" \/ isArray(o)

\* the selector without the parent's
newSelectorParentDropped(parentSelector, id) == <<".">> \o caseConverter(id)

\* the selector of a nested entry
newSelector(parentSelector, id) ==
    IF parentSelector # <<>>
    THEN parentSelector \o <<" ", ".">> \o caseConverter(id)
    ELSE <<".">> \o caseConverter(id)

\* whether the loop takes an entry's value as a nested object
isNested(value) == typeof(value) = "object" /\ ~isArray(value)

\* the for loop over Object.entries(cssObj), from entry i on
RECURSIVE forEntries(_, _, _, _, _)
forEntries(entries, i, parentSelector, stk, nestedCss) ==
    IF i > Len(entries) THEN [stack |-> stk, nestedCss |-> nestedCss]
    ELSE LET id == entries[i].id
             value == entries[i].value
             key == caseConverter(id)
         IN  IF isNested(value)
             THEN forEntries(entries, i + 1, parentSelector,
                             Append(stk, StackElement(newSelector(parentSelector, id), value)),
                             nestedCss)
             ELSE forEntries(entries, i + 1, parentSelector, stk,
                             Append(nestedCss, key \o <<":">> \o ToString(value) \o <<";">>))

\* Object.entries(cssObj) throws a TypeError on null
entriesThrows(cssObj) == cssObj.t = "null"

\* one pass of the while loop that does not throw: pop, loop over the entries, push a line
iteration(stk, lns) ==
    LET top == stk[Len(stk)]
        r == forEntries(top.cssObj.kids, 1, top.parentSelector,
                        SubSeq(stk, 1, Len(stk) - 1), <<>>)
    IN  [stack |-> r.stack,
         lines |-> IF Len(r.nestedCss) > 0
                   THEN Append(lns, top.parentSelector \o <<"{">>
                                     \o join(r.nestedCss, <<>>) \o <<"}">>)
                   ELSE lns]

\* return lines.reverse().join('')
returned(lns) == join(reverse(lns), <<>>)

\* the while loop, run to its end
RECURSIVE whileLoop(_, _)
whileLoop(stk, lns) ==
    IF Len(stk) = 0 THEN [err |-> "none", text |-> returned(lns)]
    ELSE IF entriesThrows(stk[Len(stk)].cssObj)
         THEN [err |-> "TypeError: entries of null", text |-> NoText]
         ELSE LET it == iteration(stk, lns) IN whileLoop(it.stack, it.lines)

\* toCss as a function: the error it throws ("none" when it returns) and its text
toCss(o) ==
    IF rejects(o) THEN [err |-> "TypeError: expected object", text |-> NoText]
    ELSE whileLoop(<<StackElement(<<>>, o)>>, <<>>)

-----------------------------------------------------------------------------
(* Inputs of toCss *)

Keys == {<<"a","B">>, <<"C">>}

SampleArray == Arr(<<Entry(<<"0">>, Num(1)), Entry(<<"1">>, Num(2))>>)

EntryValues == {Str(<<"r","e","d">>), Num(12), Null, SampleArray}

\* the other kinds of entry value, one entry each
OddObjects == { Obj(<<Entry(k, v)>>) : k \in Keys, v \in {Bool(TRUE), Bool(FALSE), Undefined} }

RECURSIVE Size(_)
Size(entries) ==
    IF entries = <<>> THEN 0
    ELSE 1 + (IF entries[1].value.t = "object" THEN Size(entries[1].value.kids) ELSE 0)
           + Size(Tail(entries))

\* the entry lists of at most n entries in all (nested ones counted), keys from ks
RECURSIVE EntryLists(_, _)
EntryLists(n, ks) ==
    IF n = 0 THEN {<<>>}
    ELSE {<<>>} \cup UNION { UNION {
            { <<Entry(k, v)>> \o rest :
                rest \in EntryLists(n - Size(<<Entry(k, v)>>), ks \ {k}) } :
            v \in EntryValues \cup { Obj(e) : e \in EntryLists(n - 1, Keys) } } :
         k \in ks }

Objects == { Obj(e) : e \in EntryLists(MaxEntries, Keys) }

NonObjects == {Null, Undefined, Str(<<>>), Str(<<"r","e","d">>), Num(0), Num(12),
               Bool(TRUE), Arr(<<>>), SampleArray}

-----------------------------------------------------------------------------
(* injectStyle *)

\* an element: tag name, id attribute (<<>> when it has none), textContent and
\* the host it hangs under
Element(tag, id, text, host) == [tag |-> tag, id |-> id, text |-> text, host |-> host]

\* the hosts a caller can pass; document.getElementById sees the elements under
\* the attached ones only
Hosts == {"head", "fragment"}

AttachedHosts == {"head"}

\* a lookup that sees <style> elements only
getElementByIdStylesOnly(d, id) ==
    LET found == {i \in 1..Len(d) :
                     d[i].host \in AttachedHosts /\ d[i].id = id /\ d[i].tag = "style"}
    IN  IF found = {} THEN 0 ELSE CHOOSE i \in found : \A j \in found : i <= j

\* document.getElementById(id): the index of the element found, 0 for null
getElementById(d, id) ==
    LET found == {i \in 1..Len(d) : d[i].host \in AttachedHosts /\ d[i].id = id}
    IN  IF found = {} THEN 0 ELSE CHOOSE i \in found : \A j \in found : i <= j

\* typeof textOrObject === 'object' ? toCss(textOrObject) : textOrObject
cssText(textOrObject) ==
    IF typeof(textOrObject) = "object" THEN toCss(textOrObject)
    ELSE [err |-> "none", text |-> ToString(textOrObject)]

Threw(d, message) == [outcome |-> "threw", err |-> message, doc |-> d]

Returned(d) == [outcome |-> "returned", err |-> "none", doc |-> d]

Skipped(d) == [outcome |-> "skipped", err |-> "none", doc |-> d]

\* without the tag check
existingStyleAnyTag(d, old, textOrObject, overridable) ==
    IF ~overridable THEN Skipped(d)
    ELSE LET css == cssText(textOrObject)
         IN  IF css.err # "none" THEN Threw(d, css.err)
             ELSE Returned([d EXCEPT ![old].text = css.text])

\* without the overridable check
existingStyleAlwaysOverrides(d, old, textOrObject, overridable) ==
    IF d[old].tag # "style" THEN Threw(d, "not a style tag")
    ELSE LET css == cssText(textOrObject)
         IN  IF css.err # "none" THEN Threw(d, css.err)
             ELSE Returned([d EXCEPT ![old].text = css.text])

\* falling through to a new element where the old one should be rewritten
existingStyleAppends(d, old, textOrObject, overridable) ==
    IF d[old].tag # "style" THEN Threw(d, "not a style tag")
    ELSE IF ~overridable THEN Skipped(d)
    ELSE LET css == cssText(textOrObject)
         IN  IF css.err # "none" THEN Threw(d, css.err)
             ELSE Returned(Append(d, Element("style", d[old].id, css.text, "head")))

\* if (oldStyle) { ... }: the element at index old has the id
existingStyle(d, old, textOrObject, overridable) ==
    LET isStyleTag == d[old].tag = "style"
    IN  IF ~isStyleTag THEN Threw(d, "not a style tag")
        ELSE IF isStyleTag /\ ~overridable THEN Skipped(d)
        ELSE LET css == cssText(textOrObject)
             IN  IF css.err # "none" THEN Threw(d, css.err)
                 ELSE Returned([d EXCEPT ![old].text = css.text])

\* document.createElement('style') ... hostElement.appendChild(style)
appendStyle(d, textOrObject, id, hostElement) ==
    LET css == cssText(textOrObject)
    IN  IF css.err # "none" THEN Threw(d, css.err)
        ELSE Returned(Append(d, Element("style", IF ~falsy(id) THEN id.s ELSE <<>>,
                                        css.text, hostElement)))

\* the whole call: what it does to the elements d, and how it ends
injectStyle(d, textOrObject, id, overridable, hostElement) ==
    IF falsy(textOrObject) \/ isArray(textOrObject)
    THEN Threw(d, "null or an array")
    ELSE IF textOrObject.t = "string" /\ Len(textOrObject.s) = 0
    THEN Threw(d, "empty string")
    ELSE IF ~falsy(id) /\ getElementById(d, id.s) # 0
    THEN existingStyle(d, getElementById(d, id.s), textOrObject, overridable)
    ELSE appendStyle(d, textOrObject, id, hostElement)

-----------------------------------------------------------------------------
(* Arguments of injectStyle and the documents it starts from *)

PlainCss == <<"p","{","}">>

GoodObject == Obj(<<Entry(<<"a","B">>, Obj(<<Entry(<<"x">>, Str(<<"r","e","d">>))>>))>>)

NullInside == Obj(<<Entry(<<"a">>, Null)>>)

Contents == {Null, Undefined, Str(<<>>), Str(PlainCss), SampleArray,
             GoodObject, NullInside}

Ids == {Undefined, Str(<<>>), Str(<<"x">>)}

InitDocs == {<<>>,
             <<Element("div", <<"x">>, <<>>, "head")>>,
             <<Element("style", <<"x">>, <<"q","{","}">>, "head")>>,
             <<Element("style", <<"y">>, <<"q","{","}">>, "head")>>,
             <<Element("style", <<"y">>, <<"q","{","}">>, "head"),
               Element("div", <<"x">>, <<>>, "head")>>}

NoCall == [content |-> Undefined, id |-> Undefined, overridable |-> TRUE,
           host |-> "head", outcome |-> "none", err |-> "none"]

-----------------------------------------------------------------------------
(* The specifications *)

IdAlphabet == {"a", "b", "A", "B", "1", "-"}

Identifiers == UNION {[1..n -> IdAlphabet] : n \in 0..MaxIdLen}

IdleConvert == str = <<>> /\ cres = NoText /\ cpc = "idle"

IdleToCss ==
    /\ obj = Undefined /\ stack = <<>> /\ lines = <<>>
    /\ tres = NoText /\ terr = "none" /\ tpc = "idle"

IdleInject == doc = <<>> /\ pre = <<>> /\ last = NoCall

convertVars == <<str, cres, cpc>>

toCssVars == <<obj, stack, lines, tres, terr, tpc>>

injectVars == <<doc, pre, last>>

\* caseConverter(str)
InitConvert ==
    /\ str \in Identifiers /\ cres = NoText /\ cpc = "call"
    /\ IdleToCss /\ IdleInject

ConvertCall ==
    /\ cpc = "call"
    /\ cres' = caseConverter(str)
    /\ cpc' = "done"
    /\ UNCHANGED <<str, toCssVars, injectVars>>

NextConvert == ConvertCall

SpecConvert == InitConvert /\ [][NextConvert]_vars

\* toCss(obj), one pass of the while loop at a time
InitToCss ==
    /\ obj \in Objects \cup OddObjects \cup NonObjects
    /\ stack = <<>> /\ lines = <<>> /\ tres = NoText /\ terr = "none" /\ tpc = "check"
    /\ IdleConvert /\ IdleInject

ToCssReject ==
    /\ tpc = "check" /\ rejects(obj)
    /\ terr' = "TypeError: expected object"
    /\ tpc' = "threw"
    /\ UNCHANGED <<obj, stack, lines, tres, convertVars, injectVars>>

ToCssEnter ==
    /\ tpc = "check" /\ ~rejects(obj)
    /\ stack' = <<StackElement(<<>>, obj)>>
    /\ lines' = <<>>
    /\ tpc' = "while"
    /\ UNCHANGED <<obj, tres, terr, convertVars, injectVars>>

ToCssIterate ==
    /\ tpc = "while" /\ Len(stack) > 0 /\ ~entriesThrows(stack[Len(stack)].cssObj)
    /\ stack' = iteration(stack, lines).stack
    /\ lines' = iteration(stack, lines).lines
    /\ UNCHANGED <<obj, tres, terr, tpc, convertVars, injectVars>>

ToCssEntriesThrow ==
    /\ tpc = "while" /\ Len(stack) > 0 /\ entriesThrows(stack[Len(stack)].cssObj)
    /\ stack' = SubSeq(stack, 1, Len(stack) - 1)
    /\ terr' = "TypeError: entries of null"
    /\ tpc' = "threw"
    /\ UNCHANGED <<obj, lines, tres, convertVars, injectVars>>

ToCssReturn ==
    /\ tpc = "while" /\ Len(stack) = 0
    /\ lines' = reverse(lines)
    /\ tres' = returned(lines)
    /\ tpc' = "done"
    /\ UNCHANGED <<obj, stack, terr, convertVars, injectVars>>

NextToCss ==
    \/ ToCssReject
    \/ ToCssEnter
    \/ ToCssIterate
    \/ ToCssEntriesThrow
    \/ ToCssReturn

SpecToCss == InitToCss /\ [][NextToCss]_vars

\* a sequence of injectStyle calls on one document
Init ==
    /\ doc \in InitDocs /\ pre = doc /\ last = NoCall
    /\ IdleConvert /\ IdleToCss

InjectStyle ==
    \E textOrObject \in Contents, id \in Ids, overridable \in BOOLEAN, hostElement \in Hosts :
        LET r == injectStyle(doc, textOrObject, id, overridable, hostElement)
        IN  /\ Len(r.doc) <= MaxElems
            /\ doc' = r.doc
            /\ pre' = doc
            /\ last' = [content |-> textOrObject, id |-> id, overridable |-> overridable,
                        host |-> hostElement, outcome |-> r.outcome, err |-> r.err]
            /\ UNCHANGED <<convertVars, toCssVars>>

Next == InjectStyle

Spec == Init /\ [][Next]_vars

-----------------------------------------------------------------------------
(* The reference flattening the claims compare toCss with: a recursive      *)
(* pre-order walk, a node's own rule first, then its nested entries in      *)
(* entry order.                                                             *)

IsNode(v) == v.t = "object"

ChildSelector(parent, id) ==
    IF parent = <<>> THEN <<".">> \o caseConverter(id)
    ELSE parent \o <<" ">> \o <<".">> \o caseConverter(id)

Declaration(e) == caseConverter(e.id) \o <<":">> \o ToString(e.value) \o <<";">>

RECURSIVE PreOrder(_, _)
PreOrder(node, selector) ==
    LET es == node.kids
        leaves == {i \in 1..Len(es) : ~IsNode(es[i].value)}
        decls == join([i \in 1..Len(es) |->
                          IF i \in leaves THEN Declaration(es[i]) ELSE <<>>], <<>>)
        own == IF leaves # {} THEN << selector \o <<"{">> \o decls \o <<"}">> >> ELSE <<>>
    IN  own \o join([i \in 1..Len(es) |->
                        IF i \in leaves THEN <<>>
                        ELSE PreOrder(es[i].value, ChildSelector(selector, es[i].id))], <<>>)

Range(a) == {a[i] : i \in 1..Len(a)}

Count(a, x) == Cardinality({i \in 1..Len(a) : a[i] = x})

SameBag(a, b) ==
    /\ Len(a) = Len(b)
    /\ \A x \in Range(a) \cup Range(b) : Count(a, x) = Count(b, x)

\* every rule of the first list stands before every rule of the second in out
AllBefore(first, second, out) ==
    \A m, n \in 1..Len(out) :
        (out[m] \in Range(first) /\ out[n] \in Range(second)) => m < n

\* at node, and at every node below it, the rules of an earlier nested entry
\* stand in out before the rules of a later one
RECURSIVE SiblingOrder(_, _, _)
SiblingOrder(node, selector, out) ==
    LET es == node.kids
        nested == {i \in 1..Len(es) : IsNode(es[i].value)}
        Sub(i) == PreOrder(es[i].value, ChildSelector(selector, es[i].id))
    IN  /\ \A i, j \in nested : i < j => AllBefore(Sub(i), Sub(j), out)
        /\ \A i \in nested :
              SiblingOrder(es[i].value, ChildSelector(selector, es[i].id), out)

\* whether an array is the value of an entry at some depth of an object
RECURSIVE ArrayInside(_)
ArrayInside(v) ==
    /\ v.t = "object"
    /\ \E i \in 1..Len(v.kids) : v.kids[i].value.t = "array" \/ ArrayInside(v.kids[i].value)

TopLevelInvalid(v) == v.t \in {"array", "null", "undefined", "string", "number", "boolean"}

-----------------------------------------------------------------------------
(* Claims about caseConverter, under SpecConvert *)

\* the identifier with "-" before each uppercase letter but the first, lowercased
Hyphenated(s) ==
    join([i \in 1..Len(s) |->
             (IF i > 1 /\ IsUpperAZ(s[i]) THEN <<"-">> ELSE <<>>)
                 \o <<toLowerCaseChar(s[i])>>], <<>>)

\* C4: convert(s) is s split before each uppercase letter, joined with "-" and
\* lowercased, with one more leading "-" if and only if the first character of s
\* is an uppercase letter (none for a lowercase letter, a digit or punctuation);
\* convert("") is "".
C4_ConvertAsSpecified ==
    cpc = "done" =>
        cres = (IF str # <<>> /\ IsUpperAZ(str[1]) THEN <<"-">> ELSE <<>>) \o Hyphenated(str)

-----------------------------------------------------------------------------
(* Claims about toCss, under SpecToCss *)

\* C1: the text toCss returns is the text of the pre-order flattening: a node's
\* rule before the rules of its descendants, children in entry order.
C1_EqualsPreOrder ==
    tpc = "done" => tres = join(PreOrder(obj, <<>>), <<>>)

C5_ArrayAnywhereFails ==
    (ArrayInside(obj) \/ TopLevelInvalid(obj)) => (tpc # "done" /\ tres = NoText)

\* C5, amended: toCss throws its type error, and returns no text, for a top-level
\* argument that is an array, null, absent or a primitive, and for no other
\* argument: an array that is the value of an entry is not rejected.
C5_TopLevelOnly ==
    /\ (TopLevelInvalid(obj) /\ tpc # "check") =>
          (tpc = "threw" /\ terr = "TypeError: expected object" /\ tres = NoText)
    /\ terr = "TypeError: expected object" => TopLevelInvalid(obj)
    /\ (tpc = "done" /\ ArrayInside(obj)) =>
          \E r \in Range(PreOrder(obj, <<>>)) : r \in Range(lines)

C5_Witness ==
    tpc = "threw" /\ obj.t = "array" /\ obj.kids # <<>>

\* C6: once the upfront check has passed the traversal never fails; toCss
\* returns a string whatever the entry values are.
C6_TraversalNeverFails ==
    tpc = "threw" => rejects(obj)

-----------------------------------------------------------------------------
(* Claims about injectStyle, under Spec: pre is the document before the     *)
(* last call, doc the document after it.                                    *)

Called == last.outcome # "none"

ContentInvalid(c) ==
    \/ c.t \in {"null", "undefined", "array"}
    \/ c.t = "string" /\ c.s = <<>>

\* a string or number, or an object of such entries, at every depth
RECURSIVE WellTyped(_)
WellTyped(v) ==
    \/ v.t \in {"string", "number"}
    \/ v.t = "object" /\ \A i \in 1..Len(v.kids) : WellTyped(v.kids[i].value)

ContentValid(c) == ~ContentInvalid(c) /\ WellTyped(c)

IdGiven(id) == id.t = "string" /\ id.s # <<>>

\* the elements of the document d that carry the identity
Holders(d, id) == {i \in 1..Len(d) : d[i].host \in AttachedHosts /\ d[i].id = id.s}

NamesStyle(d, id) == IdGiven(id) /\ \E i \in Holders(d, id) : d[i].tag = "style"

NamesOther(d, id) == IdGiven(id) /\ \E i \in Holders(d, id) : d[i].tag # "style"

Resolved(c) == IF c.t = "string" THEN c.s ELSE toCss(c).text

\* C7: a call that fails leaves the document as it was; the call fails when the
\* content is null, absent, an array or an empty string, whatever the identity
\* names, and when the identity names an element that is not a style element.
C7_FailureLeavesDocument ==
    /\ last.outcome = "threw" => doc = pre
    /\ (Called /\ ContentInvalid(last.content)) =>
          (last.outcome = "threw" /\ last.err \in {"null or an array", "empty string"})
    /\ (Called /\ ~ContentInvalid(last.content) /\ NamesOther(pre, last.id)) =>
          (last.outcome = "threw" /\ last.err = "not a style tag")

C7_Witness ==
    /\ last.outcome = "threw" /\ last.err = "not a style tag"
    /\ NamesOther(pre, last.id) /\ doc = pre

\* C8: with valid content, an identity that names a style element and
\* overridable = false, the call returns normally and the document is unchanged.
C8_SkipLeavesDocument ==
    (Called /\ ~ContentInvalid(last.content) /\ NamesStyle(pre, last.id)
            /\ ~last.overridable) =>
        (last.outcome = "skipped" /\ last.err = "none" /\ doc = pre)

C8_Witness ==
    /\ last.outcome = "skipped" /\ ~last.overridable
    /\ NamesStyle(pre, last.id) /\ last.content = GoodObject

\* C9: with valid content, an identity that names a style element and
\* overridable = true, that element's text becomes the resolved text, and nothing
\* else of the document changes: same elements, same identities, same places.
C9_OverrideRewritesText ==
    (Called /\ ContentValid(last.content) /\ NamesStyle(pre, last.id)
            /\ last.overridable) =>
        /\ last.outcome = "returned"
        /\ \E i \in Holders(pre, last.id) :
              doc = [pre EXCEPT ![i].text = Resolved(last.content)]

C9_Witness ==
    /\ last.outcome = "returned" /\ last.overridable
    /\ NamesStyle(pre, last.id) /\ last.content = GoodObject
    /\ Len(doc) = Len(pre) /\ doc # pre /\ Len(doc) >= 2

\* C10: as long as every host passed is attached to the document, no two
\* elements carry one identity; a call with an identity appends a style element
\* only when no element of the document carries it, and then exactly one.
C10_IdentitiesUnique ==
    /\ (\A i \in 1..Len(doc) : doc[i].host \in AttachedHosts) =>
          \A i, j \in 1..Len(doc) :
              (i # j /\ doc[i].id # <<>>) => doc[i].id # doc[j].id
    /\ (Len(doc) > Len(pre) /\ IdGiven(last.id)) =>
          /\ Holders(pre, last.id) = {}
          /\ doc = Append(pre, doc[Len(doc)])
          /\ doc[Len(doc)].id = last.id.s /\ doc[Len(doc)].tag = "style"

C10_Witness ==
    /\ Len(doc) = 2 /\ Len(pre) = 1 /\ IdGiven(last.id)
    /\ \A i \in 1..2 : doc[i].host \in AttachedHosts /\ doc[i].id # <<>>

====
